---- MODULE Spec2Model ----
(***************************************************************************)
(* A model of zappa/middleware.py: the ZappaWSGIMiddleware instance, its   *)
(* request handling (__call__, encode_response) and its cookie helpers     *)
(* (decode_zappa_cookie, filter_expired_cookies, iter_cookies_expires).    *)
(*                                                                         *)
(* Text is modelled as a sequence of one-character strings, so that the    *)
(* splitting, stripping and searching the code does is computed and not    *)
(* assumed.  A jar is a function from names (text) to values; a value is a *)
(* record [kind, s]: kind "str" for a string, "num" for a JSON number.     *)
(***************************************************************************)
EXTENDS Integers, Sequences, FiniteSets, TLC

\* ------------------------------------------------------------------------
\* Bounds of the model
\* ------------------------------------------------------------------------

\* Longest header list the wrapped application passes to encode_response.
MaxHeaders == 2

\* Most chunks in a body the wrapped application returns.
MaxChunks == 2

\* ------------------------------------------------------------------------
\* Python str operations, as the code uses them
\* ------------------------------------------------------------------------

IsSpace(c) == c \in {" ", "\t", "\n", "\r"}

SetMin(S) == CHOOSE x \in S : \A y \in S : x <= y

SetMax(S) == CHOOSE x \in S : \A y \in S : x >= y

\* s[i..j] as a sequence (empty when j < i).
Slice(s, i, j) == [k \in 1..(j - i + 1) |-> s[i + k - 1]]

\* str.find(c, i): the first position >= i holding the character c, 0 if none.
FindFrom(s, c, i) ==
  LET js == {j \in i..Len(s) : s[j] = c}
  IN  IF js = {} THEN 0 ELSE SetMin(js)

\* str.strip(): whitespace removed at both ends.
Strip(s) ==
  LET keep == {j \in 1..Len(s) : ~IsSpace(s[j])}
  IN  IF keep = {} THEN <<>> ELSE Slice(s, SetMin(keep), SetMax(keep))

\* str.count(c)
Count(s, c) == Cardinality({j \in 1..Len(s) : s[j] = c})

\* str.split(c, 1): one part when c is absent, else the text before the first
\* c and everything after it.
Split1(s, c) ==
  LET p == FindFrom(s, c, 1)
  IN  IF p = 0 THEN <<s>>
      ELSE <<Slice(s, 1, p - 1), Slice(s, p + 1, Len(s))>>

\* str.split(c): every part between occurrences of c.
RECURSIVE SplitAll(_, _)
SplitAll(s, c) ==
  LET p == FindFrom(s, c, 1)
  IN  IF p = 0 THEN <<s>>
      ELSE <<Slice(s, 1, p - 1)>> \o SplitAll(Slice(s, p + 1, Len(s)), c)

UpperChars ==
  <<"A","B","C","D","E","F","G","H","I","J","K","L","M",
    "N","O","P","Q","R","S","T","U","V","W","X","Y","Z">>

LowerChars ==
  <<"a","b","c","d","e","f","g","h","i","j","k","l","m",
    "n","o","p","q","r","s","t","u","v","w","x","y","z">>

LowerChar(c) ==
  IF \E i \in 1..Len(UpperChars) : UpperChars[i] = c
  THEN LowerChars[CHOOSE i \in 1..Len(UpperChars) : UpperChars[i] = c]
  ELSE c

\* str.lower()
Lower(s) == [i \in 1..Len(s) |-> LowerChar(s[i])]

\* sub in s
Contains(s, sub) ==
  \E i \in 1..(Len(s) - Len(sub) + 1) : Slice(s, i, i + Len(sub) - 1) = sub

\* ------------------------------------------------------------------------
\* Jars: dict of name -> value
\* ------------------------------------------------------------------------

StrVal(s) == [kind |-> "str", s |-> s]

NumVal(s) == [kind |-> "num", s |-> s]

EmptyJar == [n \in {} |-> StrVal(<<>>)]

\* dict[k] = v
JarSet(j, k, v) == [n \in (DOMAIN j) \cup {k} |-> IF n = k THEN v ELSE j[n]]

\* dict.pop(k, None) / del dict[k]
JarDel(j, k) == [n \in (DOMAIN j) \ {k} |-> j[n]]

\* dict.update(d) for a one-entry dict d = {k: v}
JarUpdate(j, d) == JarSet(j, d.name, d.value)

ZappaName == <<"z","a","p","p","a">>

\* ------------------------------------------------------------------------
\* werkzeug.http.parse_cookie, as __call__ uses it on the Cookie header
\* ------------------------------------------------------------------------

\* The attribute names parse_cookie ignores as keys.
CookieParams ==
  { <<"e","x","p","i","r","e","s">>, <<"p","a","t","h">>, <<"c","o","m","m","e","n","t">>, <<"m","a","x","-","a","g","e">>,
    <<"s","e","c","u","r","e">>, <<"h","t","t","p","o","n","l","y">>, <<"v","e","r","s","i","o","n">> }

\* The first position >= i that holds no whitespace (Len(b) + 1 if none).
SkipSpace(b, i) ==
  LET js == {j \in i..Len(b) : ~IsSpace(b[j])}
  IN  IF js = {} THEN Len(b) + 1 ELSE SetMin(js)

\* The key/value pairs of the header text b (which ends with ";"), read from
\* position i: key up to "=", then a double-quoted value or the text up to the
\* next ";".
RECURSIVE CookiePairs(_, _)
CookiePairs(b, i) ==
  LET eq == FindFrom(b, "=", i)
  IN  IF eq = 0 \/ eq = i THEN <<>>
      ELSE
        LET key    == Strip(Slice(b, i, eq - 1))
            v0     == SkipSpace(b, eq + 1)
            close  == IF v0 <= Len(b) /\ b[v0] = "\"" THEN FindFrom(b, "\"", v0 + 1) ELSE 0
            quoted == close # 0 /\ SkipSpace(b, close + 1) <= Len(b)
                        /\ b[SkipSpace(b, close + 1)] = ";"
            semi   == IF quoted THEN SkipSpace(b, close + 1) ELSE FindFrom(b, ";", v0)
            val    == IF quoted THEN Slice(b, v0 + 1, close - 1)
                      ELSE Strip(Slice(b, v0, semi - 1))
        IN  IF semi = 0 THEN <<>>
            ELSE <<[name |-> key, value |-> val]>> \o CookiePairs(b, semi + 1)

\* dict(pairs): a later pair of the same key replaces an earlier one.
RECURSIVE DictOfPairs(_, _)
DictOfPairs(pairs, acc) ==
  IF pairs = <<>> THEN acc
  ELSE LET p == Head(pairs)
       IN  DictOfPairs(Tail(pairs),
                       IF Lower(p.name) \in CookieParams THEN acc
                       ELSE JarSet(acc, p.name, StrVal(p.value)))

parse_cookie(header) == DictOfPairs(CookiePairs(header \o <<";">>, 1), EmptyJar)

\* ------------------------------------------------------------------------
\* Inputs
\* ------------------------------------------------------------------------

ExpiresEq == <<"e","x","p","i","r","e","s","=">>

\* "Wed, 01-Jan-2020 00:00:00 GMT"
Date2020 == <<"W","e","d",","," ","0","1","-","J","a","n","-","2","0","2","0"," ","0","0",":","0","0",":","0","0"," ","G","M","T">>

\* base58 of the JSON text {"c": "3"}
PayloadC3 == <<"7","v","E","r","F","Z","4","g","2","t","2","o","4","Y">>

\* Cookie headers a client sends.
CookieHeaders ==
  { <<>>,
    <<"a","=","1",";"," ","b","=","2">>,
    <<"z","a","p","p","a","=">> \o PayloadC3 \o <<";"," ","b","=","2">>,
    <<"e","=","\"","5",";"," ">> \o ExpiresEq \o Date2020 \o <<"\"">> }

SetCookie(v) == [name |-> "Set-Cookie", value |-> v]

\* Headers the wrapped application passes to the response-starter.
AppHeaders ==
  { [name |-> "Content-Type", value |-> <<"t","e","x","t","/","h","t","m","l">>],
    SetCookie(<<"a","=","9">>),
    SetCookie(<<" ","a"," ","=","8",";"," ">> \o ExpiresEq \o Date2020),
    SetCookie(<<"b","a","d">>),
    SetCookie(<<"z","a","p","p","a","=","o","w","n">>) }

RECURSIVE SeqsUpTo(_, _)
SeqsUpTo(S, n) ==
  IF n = 0 THEN {<<>>}
  ELSE LET shorter == SeqsUpTo(S, n - 1)
       IN  shorter \cup {Append(q, x) : q \in shorter, x \in S}

HeaderLists == SeqsUpTo(AppHeaders, MaxHeaders)

\* The status and exc_info the application passes with them.
StarterArgs ==
  { [status |-> "200 OK", exc_info |-> "None"],
    [status |-> "500 Internal Server Error", exc_info |-> "exc_info"] }

Chunks == <<"chunk1", "chunk2", "chunk3", "chunk4">>

\* Bodies the wrapped application returns: zero to MaxChunks chunks.
Bodies == {SubSeq(Chunks, 1, n) : n \in 0..MaxChunks}

\* What the redirect hook may stage; the empty string is falsy in Python.
RedirectContents == {"<html>REDIRECT_ME</html>", ""}

\* ------------------------------------------------------------------------
\* base58.b58decode
\* ------------------------------------------------------------------------

B58Alphabet ==
  <<"1","2","3","4","5","6","7","8","9","A","B","C","D","E","F","G","H","J","K","L","M","N","P","Q",
    "R","S","T","U","V","W","X","Y","Z","a","b","c","d","e","f","g","h","i","j","k","m","n","o","p",
    "q","r","s","t","u","v","w","x","y","z">>

B58Valid(c) == \E i \in 1..Len(B58Alphabet) : B58Alphabet[i] = c

\* alphabet.index(c)
B58Index(c) == (CHOOSE i \in 1..Len(B58Alphabet) : B58Alphabet[i] = c) - 1

\* A number as its base-256 digits, least significant first: le * m + carry.
RECURSIVE MulAdd(_, _, _)
MulAdd(le, m, carry) ==
  IF le = <<>>
  THEN IF carry = 0 THEN <<>> ELSE <<carry % 256>> \o MulAdd(<<>>, m, carry \div 256)
  ELSE <<(Head(le) * m + carry) % 256>>
         \o MulAdd(Tail(le), m, (Head(le) * m + carry) \div 256)

Pow58(e) == IF e = 0 THEN 1 ELSE IF e = 1 THEN 58 ELSE IF e = 2 THEN 58 * 58 ELSE 58 * 58 * 58

\* The value of the n <= 3 digits v[i], ..., v[i + n - 1].
BlockValue(v, i, n) ==
  (IF n >= 1 THEN B58Index(v[i]) * Pow58(n - 1) ELSE 0)
    + (IF n >= 2 THEN B58Index(v[i + 1]) * Pow58(n - 2) ELSE 0)
    + (IF n >= 3 THEN B58Index(v[i + 2]) ELSE 0)

\* The number the first k base58 digits of v spell (most significant digit
\* first), accumulated three digits at a time: acc * 58^n + digits.
RECURSIVE B58Number(_, _)
B58Number(v, k) ==
  IF k = 0 THEN <<>>
  ELSE LET n == IF k % 3 = 0 THEN 3 ELSE k % 3
       IN  MulAdd(B58Number(v, k - n), Pow58(n), BlockValue(v, k - n + 1, n))

\* v.lstrip('1'): the leading "1"s stand for leading zero bytes.
LeadingOnes(v) ==
  LET other == {j \in 1..Len(v) : v[j] # "1"}
  IN  IF other = {} THEN Len(v) ELSE SetMin(other) - 1

Reverse(s) == [i \in 1..Len(s) |-> s[Len(s) + 1 - i]]

\* The bytes b58decode returns; it raises ValueError on a character that is
\* not in the alphabet.
b58decode(v) ==
  IF \E j \in 1..Len(v) : ~B58Valid(v[j])
  THEN [err |-> "ValueError", bytes |-> <<>>]
  ELSE [err   |-> "None",
        bytes |-> Reverse(B58Number(Slice(v, LeadingOnes(v) + 1, Len(v)),
                                    Len(v) - LeadingOnes(v))
                            \o [i \in 1..LeadingOnes(v) |-> 0])]

\* ------------------------------------------------------------------------
\* json.loads, for a text that is one object of string keys and of string or
\* integer values without escapes, or that is no JSON text at all
\* ------------------------------------------------------------------------

\* The characters of the bytes 32..126; "grave" stands for the grave accent
\* (byte 96).
Printable ==
  <<" ","!","\"","#","$","%","&","'","(",")","*","+",",","-",".","/","0","1","2","3","4","5","6",
    "7","8","9",":",";","<","=",">","?","@","A","B","C","D","E","F","G","H","I","J","K","L","M","N",
    "O","P","Q","R","S","T","U","V","W","X","Y","Z","[","\\","]","^","_","grave","a","b","c","d","e",
    "f","g","h","i","j","k","l","m","n","o","p","q","r","s","t","u","v","w","x","y","z","{","|","}",
    "~">>

IsText(bytes) == \A i \in 1..Len(bytes) : bytes[i] \in {9, 10, 13} \cup (32..126)

Chr(b) ==
  IF b = 9 THEN "\t" ELSE IF b = 10 THEN "\n" ELSE IF b = 13 THEN "\r"
  ELSE Printable[b - 31]

TextOf(bytes) == [i \in 1..Len(bytes) |-> Chr(bytes[i])]

IsDigit(c) == c \in {"0", "1", "2", "3", "4", "5", "6", "7", "8", "9"}

At(t, i) == IF i >= 1 /\ i <= Len(t) THEN t[i] ELSE "EOF"

JsonFail == [ok |-> FALSE, val |-> StrVal(<<>>), jar |-> EmptyJar, next |-> 0]

\* A string starting at the quote t[i].
JsonString(t, i) ==
  LET close == FindFrom(t, "\"", i + 1)
  IN  IF At(t, i) # "\"" \/ close = 0 \/ FindFrom(Slice(t, i, close), "\\", 1) # 0
      THEN JsonFail
      ELSE [ok |-> TRUE, val |-> StrVal(Slice(t, i + 1, close - 1)),
            jar |-> EmptyJar, next |-> close + 1]

\* An integer starting at t[i].
JsonNumber(t, i) ==
  LET d0   == IF At(t, i) = "-" THEN i + 1 ELSE i
      rest == {j \in d0..Len(t) : ~IsDigit(t[j])}
      end  == IF rest = {} THEN Len(t) + 1 ELSE SetMin(rest)
  IN  IF end = d0 THEN JsonFail
      ELSE [ok |-> TRUE, val |-> NumVal(Slice(t, i, end - 1)),
            jar |-> EmptyJar, next |-> end]

JsonScalar(t, i) == IF At(t, i) = "\"" THEN JsonString(t, i) ELSE JsonNumber(t, i)

\* The members of an object from the key at t[i] to the closing brace.
RECURSIVE JsonMembers(_, _, _)
JsonMembers(t, i, acc) ==
  LET key   == JsonString(t, i)
      colon == SkipSpace(t, key.next)
      v     == JsonScalar(t, SkipSpace(t, colon + 1))
      sep   == SkipSpace(t, v.next)
      jar   == JarSet(acc, key.val.s, v.val)
  IN  IF ~key.ok \/ At(t, colon) # ":" \/ ~v.ok THEN JsonFail
      ELSE IF At(t, sep) = "}" THEN
        [ok |-> TRUE, val |-> StrVal(<<>>), jar |-> jar, next |-> sep + 1]
      ELSE IF At(t, sep) = "," THEN JsonMembers(t, SkipSpace(t, sep + 1), jar)
      ELSE JsonFail

JsonObject(t) ==
  LET open  == SkipSpace(t, 1)
      first == SkipSpace(t, open + 1)
      r     == IF At(t, open) # "{" THEN JsonFail
               ELSE IF At(t, first) = "}" THEN
                 [ok |-> TRUE, val |-> StrVal(<<>>), jar |-> EmptyJar, next |-> first + 1]
               ELSE JsonMembers(t, first, EmptyJar)
  IN  IF r.ok /\ SkipSpace(t, r.next) = Len(t) + 1 THEN r ELSE JsonFail

\* The dict json.loads returns; it raises ValueError on a text that is no JSON.
json_loads(bytes) ==
  IF IsText(bytes) /\ JsonObject(TextOf(bytes)).ok
  THEN [err |-> "None", jar |-> JsonObject(TextOf(bytes)).jar]
  ELSE [err |-> "ValueError", jar |-> EmptyJar]

\* ------------------------------------------------------------------------
\* Payloads given to decode_zappa_cookie
\* ------------------------------------------------------------------------

\* base58 of the JSON text {}
PayloadEmpty ==
  <<"A","Q","4">>

\* base58 of the JSON text {"a": "1; expires=Wed, 01-Jan-2020 00:00:00 GMT", "c": "3", "n": 5}
PayloadExpiring ==
  <<"4","e","g","w","C","V","P","M","E","F","h","D","e","J","B","5","e","n","h","G","c","U","g","u",
    "x","L","3","f","z","b","Q","W","B","Q","L","Q","W","A","T","H","4","V","x","e","G","R","W","Y",
    "D","u","q","m","D","1","D","v","9","2","e","n","w","t","x","w","y","L","q","o","q","C","o","W",
    "B","r","C","A","Z","o","e","Q","Q","V","n","j","b","E","e","m","y","z","W","8">>

\* base58 of the JSON text {"y": "1; expires=Wed, 01-Jan-20 00:00:00 GMT", "p": "1; path=/"}
PayloadTwoDigit ==
  <<"B","s","E","e","E","7","q","C","w","E","2","8","F","6","v","K","c","8","r","s","U","m","V","D",
    "f","q","a","w","A","Z","X","g","v","H","b","P","2","u","5","d","E","q","a","h","3","V","k","r",
    "p","8","8","r","n","f","3","u","3","z","n","A","R","e","H","8","7","d","b","Y","u","9","r","1",
    "9","4","V","9","k","A","6","P","R","X","9","s","W","f","T","k","Q">>

\* base58 of the JSON text {"a": "1; expires=Wed, 01-Jan-2020 00:00:00 GMT", "u": "1; expires=never"}
PayloadBadDate ==
  <<"c","Q","e","L","x","e","n","Q","4","k","6","3","N","p","M","i","r","9","i","e","W","B","e","e",
    "v","d","S","g","e","N","x","t","J","M","V","j","r","H","1","a","h","J","o","w","P","S","X","B",
    "N","u","H","G","z","d","7","X","q","Y","E","v","P","M","9","B","r","A","U","r","A","6","e","X",
    "T","t","X","r","r","8","Q","3","W","Z","6","x","Q","r","h","T","c","o","s","9","v","7","a","c",
    "x","1","8","g","U">>

\* base58 of the JSON text {"a": "1; expires=Wed, 01-Jan-2020 00:00:00 GMT", "v": "1; expires; path=/"}
PayloadNoValue ==
  <<"C","t","o","C","w","H","s","G","s","E","L","C","E","w","t","9","S","s","h","T","n","n","z","T",
    "s","H","D","J","s","c","W","L","G","b","Z","7","V","r","5","X","D","R","y","C","F","N","S","f",
    "D","6","z","4","V","U","Y","b","m","L","Y","J","4","8","h","s","7","n","6","J","t","n","r","o",
    "3","X","k","E","y","K","Q","u","u","B","R","q","x","F","1","2","A","7","H","a","f","V","E","k",
    "Z","P","o","r","N","h","U","g">>

\* base58 of the JSON text {"expires_at": "Wed, 01-Jan-2020 00:00:00 GMT; path=/"}
PayloadNamed ==
  <<"k","p","X","G","g","p","E","A","v","P","R","L","s","g","G","t","F","y","M","y","c","6","1","Q",
    "f","K","m","M","4","4","R","X","D","o","b","i","A","V","1","d","v","D","x","r","W","e","N","G",
    "9","Q","G","C","F","u","e","J","o","U","G","G","Q","Q","n","n","7","Y","q","D","h","G","w","k",
    "k","N","x">>

\* base58 of the JSON text {"t": "expires; path=/"}
PayloadText ==
  <<"C","E","5","P","U","e","1","y","P","6","1","h","Y","5","W","Y","w","Z","K","5","p","P","6","p",
    "X","z","g","Z","b","r","e","d","S">>

\* base58 of the JSON text {"a": "1; expires=Wed, 01-Jan-2020 00:00:00 GMT", "y": "1; expires=Wed, 01-Jan-20 00:00:00 GMT"}
PayloadTwoExpired ==
  <<"j","R","A","g","H","8","j","i","3","p","Q","8","x","G","t","M","k","G","q","T","o","X","p","j",
    "D","E","m","8","s","X","j","5","p","w","U","d","z","Z","D","T","k","y","5","u","A","c","V","s",
    "f","9","Z","n","w","g","1","q","o","P","g","v","L","s","A","S","r","X","3","i","7","a","F","w",
    "4","Z","e","1","X","2","B","t","r","1","m","N","8","L","4","D","h","L","a","5","w","X","x","V",
    "H","U","z","k","j","4","Z","8","7","5","X","F","C","x","u","a","J","S","m","d","H","e","q","i",
    "r","G","h","X","7","n","V","9","H","j","S">>

\* base58 of the JSON text {"c": "3"
PayloadTruncated ==
  <<"2","Z","u","X","e","H","K","x","W","s","z","3","j">>

\* Not base58: "0", "O", "I" and "l" are not in the alphabet.
PayloadNotBase58 == <<"0","O","I","l">>

Payloads ==
  { PayloadC3, PayloadEmpty, PayloadExpiring, PayloadTwoDigit, PayloadBadDate,
    PayloadNoValue, PayloadNamed, PayloadText, PayloadTwoExpired, PayloadTruncated,
    PayloadNotBase58 }

\* ------------------------------------------------------------------------
\* Time: what time.gmtime() returns, as struct_time tuples
\* <<year, mon, mday, hour, min, sec, wday, yday, isdst>>
\* ------------------------------------------------------------------------

\* The instants the clock passes through: one second before, exactly at and one
\* second after Wed, 01-Jan-2020 00:00:00 GMT.
Instants ==
  << <<2019, 12, 31, 23, 59, 59, 1, 365, 0>>,
     <<2020,  1,  1,  0,  0,  0, 2,   1, 0>>,
     <<2020,  1,  1,  0,  0,  1, 2,   1, 0>> >>

\* ------------------------------------------------------------------------
\* State of one ZappaWSGIMiddleware instance and of the request it handles
\* ------------------------------------------------------------------------

VARIABLES
  pc,               \* "idle": no request in progress; "app": inside the wrapped
                    \* application; "started": the application has called the
                    \* response-starter
  request_cookies,  \* self.request_cookies
  environ_cookie,   \* environ['HTTP_COOKIE'] of the current request
  aliased,          \* environ['HTTP_COOKIE'] and self.request_cookies are one object
  start_response,   \* self.start_response
  redirect_content, \* self.redirect_content
  decoded_zappa,    \* self.decoded_zappa: <<>> for None, else <<bytes>>
  clock,            \* index into Instants of the current time
  sr_call,          \* the call the last operation made to the underlying
                    \* start_response: <<>> or <<[status, headers, exc_info]>>
  body,             \* what the last operation returned as body: <<>> or <<chunks>>
  err,              \* the exception the last operation raised, "None" if none
  op,               \* the last operation
  in_header,        \* the Cookie header of the current request
  arg_headers,      \* the header list given to the last operation (encode_response)
  arg_payload,      \* the payload given to the last operation (decode_zappa_cookie)
  pre_cookies,      \* self.request_cookies before the last operation
  pre_redirect,     \* self.redirect_content before the last operation
  staged_now,       \* the override in the slot was staged during this request
  arg_status,       \* the status and exc_info given to the last operation, an
                    \* encode_response that reached line 101: <<>> or
                    \* <<status, exc_info>>
  ret,              \* what the last operation (encode_response) returned to the
                    \* application: <<>> or <<value>>
  pruned,           \* the jar is as a completed filter_expired_cookies left it,
                    \* and the clock has not moved since
  pre_pruned,       \* pruned before the last operation
  inst,             \* the attributes of each of two instances serving requests
                    \* side by side
  klass,            \* the attributes of the class ZappaWSGIMiddleware
  last              \* the last step of the two instances

vars ==
  <<pc, request_cookies, environ_cookie, aliased, start_response, redirect_content,
    decoded_zappa, clock, sr_call, body, err, op, in_header, arg_headers,
    arg_payload, pre_cookies, pre_redirect, staged_now, arg_status, ret, pruned,
    pre_pruned, inst, klass, last>>

\* The state of the single instance and of its requests.
single ==
  <<pc, request_cookies, environ_cookie, aliased, start_response, redirect_content,
    decoded_zappa, clock, sr_call, body, err, op, in_header, arg_headers,
    arg_payload, pre_cookies, pre_redirect, staged_now, arg_status, ret, pruned,
    pre_pruned>>

\* The state of the two instances that serve requests side by side.
others == <<inst, klass, last>>

now == Instants[clock]

\* The instances that serve requests side by side.
Instances == {1, 2}

\* The attributes the class body binds (lines 29-32) that requests use.
ClassAttributes ==
  [request_cookies  |-> EmptyJar,
   start_response   |-> "None",
   redirect_content |-> "None"]

\* A new instance: __init__ binds none of these attributes on it (attrs is its
\* own attribute dictionary); no request is in progress, and the transport has
\* given it no start_response.
NewInstance == [pc |-> "idle", attrs |-> <<>>, given |-> "None"]

NoStep ==
  [who |-> 0, op |-> "init", err |-> "None", headers |-> <<>>, called |-> <<>>,
   body |-> <<>>,
   pre |-> [i \in Instances |-> [a \in DOMAIN ClassAttributes |-> ClassAttributes[a]]]]

Init ==
  /\ pc = "idle"
  /\ request_cookies = EmptyJar
  /\ environ_cookie = EmptyJar
  /\ aliased = FALSE
  /\ start_response = "None"
  /\ redirect_content = "None"
  /\ decoded_zappa = <<>>
  /\ clock = 1
  /\ sr_call = <<>>
  /\ body = <<>>
  /\ err = "None"
  /\ op = "init"
  /\ in_header = <<>>
  /\ arg_headers = <<>>
  /\ arg_payload = <<>>
  /\ pre_cookies = EmptyJar
  /\ pre_redirect = "None"
  /\ staged_now = FALSE
  /\ arg_status = <<>>
  /\ ret = <<>>
  /\ pruned = FALSE
  /\ pre_pruned = FALSE
  /\ inst = [i \in Instances |-> NewInstance]
  /\ klass = ClassAttributes
  /\ last = NoStep

\* What every operation records about the state it started from.
Began(name) ==
  /\ op' = name
  /\ arg_payload' = <<>>
  /\ pre_cookies' = request_cookies
  /\ pre_redirect' = redirect_content
  /\ pre_pruned' = pruned

\* The same for an operation that takes no header list, calls no start_response
\* and returns no body.
Record(name) ==
  /\ op' = name
  /\ arg_payload' = <<>>
  /\ arg_headers' = <<>>
  /\ sr_call' = <<>>
  /\ body' = <<>>
  /\ arg_status' = <<>>
  /\ ret' = <<>>
  /\ pre_cookies' = request_cookies
  /\ pre_redirect' = redirect_content
  /\ pre_pruned' = pruned

\* ------------------------------------------------------------------------
\* __call__, up to the call of the wrapped application
\* ------------------------------------------------------------------------

\* A variant of RequestCookies that leaves out the pop of 'zappa'.
RequestCookiesKeepingZappa(header) == parse_cookie(header)

\* A variant of RequestCookies that updates the jar the instance holds with the
\* parsed cookies instead of replacing it.
RequestCookiesUpdatingJar(header) ==
  LET parsed == JarDel(parse_cookie(header), ZappaName)
  IN  [n \in (DOMAIN request_cookies) \cup (DOMAIN parsed) |->
         IF n \in DOMAIN parsed THEN parsed[n] ELSE request_cookies[n]]

\* parse_cookie(environ) followed by parsed.pop('zappa', None)
RequestCookies(header) == JarDel(parse_cookie(header), ZappaName)

Call(header) ==
  /\ pc = "idle"
  /\ start_response' = "start_response"
  /\ \E parsed \in {RequestCookies(header)} :
       /\ request_cookies' = parsed
       /\ environ_cookie' = parsed
  /\ aliased' = TRUE
  /\ pc' = "app"
  /\ in_header' = header
  /\ err' = "None"
  /\ staged_now' = FALSE
  /\ Record("call")
  /\ pruned' = FALSE
  /\ UNCHANGED <<redirect_content, decoded_zappa, clock>>
  /\ UNCHANGED others

\* ------------------------------------------------------------------------
\* encode_response
\* ------------------------------------------------------------------------

\* A variant of NewHeaders that lets the Set-Cookie headers through.
NewHeadersWithSetCookie(headers) == headers

\* new_headers: every header that is not a Set-Cookie.
NewHeaders(headers) == SelectSeq(headers, LAMBDA h : h.name # "Set-Cookie")

SetCookieHeaders(headers) == SelectSeq(headers, LAMBDA h : h.name = "Set-Cookie")

\* header[1].split('=', 1)[1] raises IndexError when the value holds no "=".
Malformed(h) == Len(Split1(h.value, "=")) < 2

\* {header[1].split('=', 1)[0].strip(): header[1].split('=', 1)[1]}
CookieDict(h) ==
  [name  |-> Strip(Split1(h.value, "=")[1]),
   value |-> StrVal(Split1(h.value, "=")[2])]

cookie_dicts(headers) ==
  LET directives == SetCookieHeaders(headers)
  IN  [i \in 1..Len(directives) |-> CookieDict(directives[i])]

\* A variant of MapUpdate in which each directive replaces the jar instead of
\* updating it.
RECURSIVE MapUpdateReplacing(_, _)
MapUpdateReplacing(jar, dicts) ==
  IF dicts = <<>> THEN jar
  ELSE MapUpdateReplacing(JarUpdate(EmptyJar, Head(dicts)), Tail(dicts))

\* A variant of MapUpdate that applies the updates in reverse list order.
RECURSIVE MapUpdateReversed(_, _)
MapUpdateReversed(jar, dicts) ==
  IF dicts = <<>> THEN jar
  ELSE JarUpdate(MapUpdateReversed(jar, Tail(dicts)), Head(dicts))

\* map(self.request_cookies.update, cookie_dicts): the updates in list order.
RECURSIVE MapUpdate(_, _)
MapUpdate(jar, dicts) ==
  IF dicts = <<>> THEN jar
  ELSE MapUpdate(JarUpdate(jar, Head(dicts)), Tail(dicts))

\* A variant of UpdateRequestCookies that splits and merges the directives one
\* at a time, so that those before a directive without "=" are merged.
RECURSIVE UpdateRequestCookiesOneByOne(_, _)
UpdateRequestCookiesOneByOne(jar, headers) ==
  IF headers = <<>> THEN [err |-> "None", jar |-> jar]
  ELSE IF Head(headers).name # "Set-Cookie"
    THEN UpdateRequestCookiesOneByOne(jar, Tail(headers))
  ELSE IF Malformed(Head(headers)) THEN [err |-> "IndexError", jar |-> jar]
  ELSE UpdateRequestCookiesOneByOne(JarUpdate(jar, CookieDict(Head(headers))),
                                    Tail(headers))

\* Lines 91-100: the list cookie_dicts is built whole, which raises IndexError
\* at a directive without "=", and only then are its dicts merged into the jar.
UpdateRequestCookies(jar, headers) ==
  IF \E i \in 1..Len(headers) :
       headers[i].name = "Set-Cookie" /\ Malformed(headers[i])
  THEN [err |-> "IndexError", jar |-> jar]
  ELSE [err |-> "None", jar |-> MapUpdate(jar, cookie_dicts(headers))]

\* What the underlying start_response may return: the write callable, or None.
StarterResults == {"write", "None"}

encode_response(status, headers, exc_info) ==
  /\ pc = "app"
  /\ arg_headers' = headers
  /\ body' = <<>>
  /\ Began("encode_response")
  /\ \E r \in {UpdateRequestCookies(request_cookies, headers)} :
       /\ err' = r.err
       /\ request_cookies' = r.jar
       /\ environ_cookie' = IF aliased THEN r.jar ELSE environ_cookie
       /\ IF r.err = "None"
          THEN \* return self.start_response(status, new_headers, exc_info)
               /\ \E result \in StarterResults :
                    /\ sr_call' = <<[status   |-> status,
                                     headers  |-> NewHeaders(headers),
                                     exc_info |-> exc_info,
                                     result   |-> result]>>
                    /\ ret' = <<result>>
               /\ arg_status' = <<status, exc_info>>
               /\ pc' = "started"
          ELSE \* the exception goes to the application
               /\ sr_call' = <<>>
               /\ ret' = <<>>
               /\ arg_status' = <<>>
               /\ pc' = pc
  /\ pruned' = FALSE
  /\ UNCHANGED <<aliased, start_response, redirect_content, decoded_zappa, clock,
                 in_header, staged_now>>
  /\ UNCHANGED others

\* ------------------------------------------------------------------------
\* __call__, after the wrapped application
\* ------------------------------------------------------------------------

\* Python truth of self.redirect_content
Truthy(c) == c # "None" /\ c # ""

\* [self.redirect_content for item in response]
Smash(response, content) == [i \in 1..Len(response) |-> content]

AppReturns(response) ==
  /\ pc \in {"app", "started"}
  /\ body' = <<IF Truthy(redirect_content) THEN Smash(response, redirect_content)
               ELSE response>>
  /\ redirect_content' = "None"
  /\ pc' = "idle"
  /\ err' = "None"
  /\ arg_headers' = <<>>
  /\ sr_call' = <<>>
  /\ arg_status' = <<>>
  /\ ret' = <<>>
  /\ Began("return")
  /\ pruned' = FALSE
  /\ UNCHANGED <<request_cookies, environ_cookie, aliased, start_response,
                 decoded_zappa, clock, in_header, staged_now>>
  /\ UNCHANGED others

\* The wrapped application raises: line 64 does not return and __call__ ends
\* there, the exception going to the caller.
AppRaises ==
  /\ pc \in {"app", "started"}
  /\ pc' = "idle"
  /\ err' = "ApplicationError"
  /\ Record("raise")
  /\ pruned' = FALSE
  /\ UNCHANGED <<request_cookies, environ_cookie, aliased, start_response,
                 redirect_content, decoded_zappa, clock, in_header, staged_now>>
  /\ UNCHANGED others

\* The redirect hook stages a body for the response in progress.
StageRedirect(content) ==
  /\ pc \in {"app", "started"}
  /\ redirect_content' = content
  /\ staged_now' = TRUE
  /\ err' = "None"
  /\ Record("stage")
  /\ pruned' = FALSE
  /\ UNCHANGED <<pc, request_cookies, environ_cookie, aliased, start_response,
                 decoded_zappa, clock, in_header>>
  /\ UNCHANGED others

\* ------------------------------------------------------------------------
\* decode_zappa_cookie
\* ------------------------------------------------------------------------

\* The outcome of decode_zappa_cookie(encoded_zappa) on an instance whose
\* attributes are decoded and cookies: the exception raised and the attributes
\* afterwards.  Neither call is inside a try.
DecodeZappaCookie(encoded_zappa, decoded, cookies) ==
  LET b == b58decode(encoded_zappa)
      j == json_loads(b.bytes)
  IN  IF b.err # "None" THEN
        [err |-> b.err, decoded_zappa |-> decoded, request_cookies |-> cookies,
         rebound |-> FALSE]
      ELSE IF j.err # "None" THEN
        [err |-> j.err, decoded_zappa |-> <<b.bytes>>, request_cookies |-> cookies,
         rebound |-> FALSE]
      ELSE
        [err |-> "None", decoded_zappa |-> <<b.bytes>>, request_cookies |-> j.jar,
         rebound |-> TRUE]

decode_zappa_cookie(encoded_zappa) ==
  /\ pc = "idle"
  /\ \E r \in {DecodeZappaCookie(encoded_zappa, decoded_zappa, request_cookies)} :
         /\ err' = r.err
         /\ decoded_zappa' = r.decoded_zappa
         /\ request_cookies' = r.request_cookies
         /\ aliased' = (aliased /\ ~r.rebound)
  /\ op' = "decode_zappa_cookie"
  /\ arg_payload' = encoded_zappa
  /\ arg_headers' = <<>>
  /\ sr_call' = <<>>
  /\ body' = <<>>
  /\ arg_status' = <<>>
  /\ ret' = <<>>
  /\ pre_cookies' = request_cookies
  /\ pre_redirect' = redirect_content
  /\ pre_pruned' = pruned
  /\ pruned' = FALSE
  /\ UNCHANGED <<pc, environ_cookie, start_response, redirect_content, clock,
                 in_header, staged_now>>
  /\ UNCHANGED others

\* ------------------------------------------------------------------------
\* time.strptime with the two formats of iter_cookies_expires, for texts
\* whose fields have the widths the format letters print ("Wed, 01-Jan-2020
\* 00:00:00 GMT", "Wed, 01-Jan-20 00:00:00 GMT") or that match neither format
\* ------------------------------------------------------------------------

WeekdayNames ==
  << <<"m","o","n">>, <<"t","u","e">>, <<"w","e","d">>, <<"t","h","u">>,
     <<"f","r","i">>, <<"s","a","t">>, <<"s","u","n">> >>

MonthNames ==
  << <<"j","a","n">>, <<"f","e","b">>, <<"m","a","r">>, <<"a","p","r">>,
     <<"m","a","y">>, <<"j","u","n">>, <<"j","u","l">>, <<"a","u","g">>,
     <<"s","e","p">>, <<"o","c","t">>, <<"n","o","v">>, <<"d","e","c">> >>

\* The position of the name in names, 0 if it is none of them.
NameIndex(names, name) ==
  IF \E i \in 1..Len(names) : names[i] = Lower(name)
  THEN CHOOSE i \in 1..Len(names) : names[i] = Lower(name)
  ELSE 0

AllDigits(s) == \A i \in 1..Len(s) : IsDigit(s[i])

DigitValue(c) == (CHOOSE i \in 1..10 : Printable[16 + i] = c) - 1

RECURSIVE ToInt(_)
ToInt(s) ==
  IF s = <<>> THEN 0
  ELSE 10 * ToInt(SubSeq(s, 1, Len(s) - 1)) + DigitValue(s[Len(s)])

IsLeap(y) == y % 4 = 0 /\ (y % 100 # 0 \/ y % 400 = 0)

DaysInMonth(y, m) ==
  IF m = 2 THEN (IF IsLeap(y) THEN 29 ELSE 28)
  ELSE IF m \in {4, 6, 9, 11} THEN 30 ELSE 31

RECURSIVE DaysBefore(_, _)
DaysBefore(y, m) == IF m = 1 THEN 0 ELSE DaysBefore(y, m - 1) + DaysInMonth(y, m - 1)

\* %y: 69..99 are 1969..1999 and 0..68 are 2000..2068.
Century(yy) == IF yy >= 69 THEN 1900 + yy ELSE 2000 + yy

StrpFail == [ok |-> FALSE, time |-> <<>>]

\* strptime(text, "%a, %d-%b-%Y %H:%M:%S GMT") when ylen = 4 and
\* strptime(text, "%a, %d-%b-%y %H:%M:%S GMT") when ylen = 2: the struct_time,
\* whose tm_wday is the weekday named in the text and whose tm_isdst is -1, or
\* the failure that is a ValueError.
strptime(text, ylen) ==
  LET f(i, j) == Slice(text, i, j)
      z       == 12 + ylen     \* the last position of the year
      wday    == NameIndex(WeekdayNames, f(1, 3))
      mon     == NameIndex(MonthNames, f(9, 11))
      shape   == /\ Len(text) = z + 13
                 /\ f(4, 5) = <<",", " ">>
                 /\ text[8] = "-" /\ text[12] = "-"
                 /\ text[z + 1] = " " /\ text[z + 4] = ":" /\ text[z + 7] = ":"
                 /\ text[z + 10] = " "
                 /\ Lower(f(z + 11, z + 13)) = <<"g", "m", "t">>
                 /\ AllDigits(f(6, 7)) /\ AllDigits(f(13, z))
                 /\ AllDigits(f(z + 2, z + 3)) /\ AllDigits(f(z + 5, z + 6))
                 /\ AllDigits(f(z + 8, z + 9))
      year    == IF ylen = 4 THEN ToInt(f(13, z)) ELSE Century(ToInt(f(13, z)))
      mday    == ToInt(f(6, 7))
      hour    == ToInt(f(z + 2, z + 3))
      min     == ToInt(f(z + 5, z + 6))
      sec     == ToInt(f(z + 8, z + 9))
  IN  IF ~shape \/ wday = 0 \/ mon = 0 THEN StrpFail
      ELSE IF year < 1 \/ mday < 1 \/ mday > DaysInMonth(year, mon)
                \/ hour > 23 \/ min > 59 \/ sec > 61 THEN StrpFail
      ELSE [ok   |-> TRUE,
            time |-> <<year, mon, mday, hour, min, sec, wday - 1,
                       DaysBefore(year, mon) + mday, -1>>]

\* exp < now on struct_time values: the comparison of the tuples, field by field.
TupleLess(a, b) ==
  \E i \in 1..Len(a) : a[i] < b[i] /\ \A j \in 1..(i - 1) : a[j] = b[j]

\* ------------------------------------------------------------------------
\* iter_cookies_expires and filter_expired_cookies
\* ------------------------------------------------------------------------

ExpiresWord == <<"e","x","p","i","r","e","s">>

\* The positions of the parts of the cookie text that hold "expires".
ExpiresParts(kvps) ==
  {i \in 1..Len(kvps) : Contains(Lower(Strip(kvps[i])), ExpiresWord)}

\* A variant of CookieExpires without the second strptime: a date the
\* four-digit-year format does not parse raises.
CookieExpiresFourDigitOnly(name, value) ==
  LET cookie == name \o <<"=">> \o value.s
      kvps   == SplitAll(cookie, ";")
      kvp    == Strip(kvps[SetMin(ExpiresParts(kvps))])
      date   == SplitAll(kvp, "=")[2]
      long   == strptime(date, 4)
  IN  IF value.kind # "str" THEN [kind |-> "skip"]
      ELSE IF Count(cookie, "=") = 1 THEN [kind |-> "skip"]
      ELSE IF ExpiresParts(kvps) = {} THEN [kind |-> "skip"]
      ELSE IF Len(SplitAll(kvp, "=")) < 2 THEN [kind |-> "raise", err |-> "IndexError"]
      ELSE IF long.ok THEN [kind |-> "yield", exp |-> long.time]
      ELSE [kind |-> "raise", err |-> "ValueError"]

\* What iter_cookies_expires does with one item of the jar: it passes over it
\* ("skip"), yields its name with a time ("yield"), or raises ("raise").
CookieExpires(name, value) ==
  LET cookie == name \o <<"=">> \o value.s
      kvps   == SplitAll(cookie, ";")
      kvp    == Strip(kvps[SetMin(ExpiresParts(kvps))])
      date   == SplitAll(kvp, "=")[2]
      long   == strptime(date, 4)
      short  == strptime(date, 2)
  IN  IF value.kind # "str" THEN [kind |-> "skip"]
      ELSE IF Count(cookie, "=") = 1 THEN [kind |-> "skip"]
      ELSE IF ExpiresParts(kvps) = {} THEN [kind |-> "skip"]
      ELSE IF Len(SplitAll(kvp, "=")) < 2 THEN [kind |-> "raise", err |-> "IndexError"]
      ELSE IF long.ok THEN [kind |-> "yield", exp |-> long.time]
      ELSE IF short.ok THEN [kind |-> "yield", exp |-> short.time]
      ELSE [kind |-> "raise", err |-> "ValueError"]

\* The orders in which items() may list the names of a dict.
RECURSIVE Orders(_)
Orders(S) ==
  IF S = {} THEN {<<>>}
  ELSE UNION {{<<x>> \o q : q \in Orders(S \ {x})} : x \in S}

\* A variant of FilterFrom whose loop ends after the first entry it deletes.
RECURSIVE FilterFromStoppingAtFirst(_, _, _, _)
FilterFromStoppingAtFirst(jar, order, i, t) ==
  IF i > Len(order) THEN [err |-> "None", jar |-> jar]
  ELSE LET e == CookieExpires(order[i], jar[order[i]])
       IN  IF e.kind = "raise" THEN [err |-> e.err, jar |-> jar]
           ELSE IF e.kind = "yield" /\ TupleLess(e.exp, t)
             THEN [err |-> "None", jar |-> JarDel(jar, order[i])]
           ELSE FilterFromStoppingAtFirst(jar, order, i + 1, t)

\* The loop of filter_expired_cookies over the items from position i on, in the
\* given order: the jar afterwards and the exception that ended the loop.
RECURSIVE FilterFrom(_, _, _, _)
FilterFrom(jar, order, i, t) ==
  IF i > Len(order) THEN [err |-> "None", jar |-> jar]
  ELSE LET e == CookieExpires(order[i], jar[order[i]])
       IN  IF e.kind = "raise" THEN [err |-> e.err, jar |-> jar]
           ELSE IF e.kind = "yield" /\ TupleLess(e.exp, t)
             THEN FilterFrom(JarDel(jar, order[i]), order, i + 1, t)
           ELSE FilterFrom(jar, order, i + 1, t)

FilterExpired(jar, order, t) == FilterFrom(jar, order, 1, t)

filter_expired_cookies ==
  /\ pc = "idle"
  /\ \E order \in Orders(DOMAIN request_cookies) :
       \E r \in {FilterExpired(request_cookies, order, now)} :
         /\ err' = r.err
         /\ request_cookies' = r.jar
         /\ environ_cookie' = IF aliased THEN r.jar ELSE environ_cookie
         /\ pruned' = (r.err = "None")
  /\ Record("filter_expired_cookies")
  /\ UNCHANGED <<pc, aliased, start_response, redirect_content, decoded_zappa, clock,
                 in_header, staged_now>>
  /\ UNCHANGED others

\* Time passes.
Tick ==
  /\ clock < Len(Instants)
  /\ clock' = clock + 1
  /\ err' = "None"
  /\ Record("tick")
  /\ pruned' = FALSE
  /\ UNCHANGED <<pc, request_cookies, environ_cookie, aliased, start_response,
                 redirect_content, decoded_zappa, in_header, staged_now>>
  /\ UNCHANGED others

Next ==
  \/ \E header \in CookieHeaders : Call(header)
  \/ \E a \in StarterArgs, headers \in HeaderLists :
       encode_response(a.status, headers, a.exc_info)
  \/ \E response \in Bodies : AppReturns(response)
  \/ AppRaises
  \/ \E content \in RedirectContents : StageRedirect(content)
  \/ Tick

Spec == Init /\ [][Next]_vars

\* The helper methods, which __call__ and encode_response never call, applied
\* to the instance between requests.
NextJar ==
  \/ \E encoded_zappa \in Payloads : decode_zappa_cookie(encoded_zappa)
  \/ filter_expired_cookies
  \/ Tick

SpecJar == Init /\ [][NextJar]_vars

\* ------------------------------------------------------------------------
\* Two instances of ZappaWSGIMiddleware, each serving its own requests; their
\* steps interleave.  self.x reads the attribute of the instance when the
\* instance has one and the attribute of the class otherwise; self.x = v
\* binds the attribute on the instance.
\* ------------------------------------------------------------------------

AttrNames == DOMAIN ClassAttributes

\* The instances and the class, as the operators below take and return them.
Heap == [inst |-> inst, klass |-> klass]

\* self.a on instance i
GetAttr(s, i, a) ==
  IF a \in DOMAIN s.inst[i].attrs THEN s.inst[i].attrs[a] ELSE s.klass[a]

\* A variant of SetAttr that binds the attribute on the class.
SetAttrOnClass(s, i, a, v) == [s EXCEPT !.klass[a] = v]

\* self.a = v on instance i
SetAttr(s, i, a, v) ==
  [s EXCEPT !.inst[i].attrs =
     [x \in (DOMAIN @) \cup {a} |-> IF x = a THEN v ELSE @[x]]]

\* A change in place of the object self.a refers to, which is the object of
\* the class when the instance has no attribute a of its own.
UpdateAttr(s, i, a, v) ==
  IF a \in DOMAIN s.inst[i].attrs
  THEN [s EXCEPT !.inst[i].attrs[a] = v]
  ELSE [s EXCEPT !.klass[a] = v]

\* What is visible as self.a on each instance.
Visible(s) == [i \in Instances |-> [a \in AttrNames |-> GetAttr(s, i, a)]]

\* The start_response callables the transport supplies with the requests.
Starters == {"start_response_1", "start_response_2"}

\* Cookie headers of the requests the two instances serve.
SideCookieHeaders == {<<>>, <<"a","=","1",";"," ","b","=","2">>}

\* Header lists their applications pass to encode_response.
SideHeaderLists ==
  { <<>>,
    <<SetCookie(<<"a","=","9">>)>>,
    <<SetCookie(<<"c","=","3">>), SetCookie(<<"b","a","d">>)>> }

Step(i, name) ==
  [who |-> i, op |-> name, err |-> "None", headers |-> <<>>, called |-> <<>>,
   body |-> <<>>, pre |-> Visible(Heap)]

\* __call__ on instance i, up to the call of the application (lines 56-64)
InstCall(i, header, starter) ==
  /\ inst[i].pc = "idle"
  /\ \E t \in {SetAttr(SetAttr(Heap, i, "start_response", starter),
                       i, "request_cookies", RequestCookies(header))} :
       /\ inst' = [t.inst EXCEPT ![i].pc = "app", ![i].given = starter]
       /\ klass' = t.klass
  /\ last' = Step(i, "call")
  /\ UNCHANGED single

\* The application of instance i calls the encode_response it was given.
InstEncodeResponse(i, headers) ==
  /\ inst[i].pc = "app"
  /\ \E r \in {UpdateRequestCookies(GetAttr(Heap, i, "request_cookies"), headers)} :
       \E t \in {UpdateAttr(Heap, i, "request_cookies", r.jar)} :
         /\ inst' = [t.inst EXCEPT ![i].pc = IF r.err = "None" THEN "started" ELSE "app"]
         /\ klass' = t.klass
         /\ last' = [Step(i, "encode_response") EXCEPT
                       !.err = r.err,
                       !.headers = headers,
                       !.called = IF r.err = "None"
                                  THEN <<GetAttr(Heap, i, "start_response")>>
                                  ELSE <<>>]
  /\ UNCHANGED single

\* The application of instance i returns its body (lines 66-75).
InstReturn(i, response) ==
  /\ inst[i].pc \in {"app", "started"}
  /\ \E t \in {SetAttr(Heap, i, "redirect_content", "None")} :
       /\ inst' = [t.inst EXCEPT ![i].pc = "idle"]
       /\ klass' = t.klass
  /\ last' = [Step(i, "return") EXCEPT
                !.body = <<IF Truthy(GetAttr(Heap, i, "redirect_content"))
                           THEN Smash(response, GetAttr(Heap, i, "redirect_content"))
                           ELSE response>>]
  /\ UNCHANGED single

\* The application of instance i raises (line 64).
InstRaises(i) ==
  /\ inst[i].pc \in {"app", "started"}
  /\ inst' = [inst EXCEPT ![i].pc = "idle"]
  /\ last' = [Step(i, "raise") EXCEPT !.err = "ApplicationError"]
  /\ UNCHANGED <<klass, single>>

\* The redirect hook stages a body on the instance serving the response.
InstStage(i, content) ==
  /\ inst[i].pc \in {"app", "started"}
  /\ \E t \in {SetAttr(Heap, i, "redirect_content", content)} :
       /\ inst' = t.inst
       /\ klass' = t.klass
  /\ last' = Step(i, "stage")
  /\ UNCHANGED single

NextTwo ==
  \/ \E i \in Instances, header \in SideCookieHeaders, starter \in Starters :
       InstCall(i, header, starter)
  \/ \E i \in Instances, headers \in SideHeaderLists : InstEncodeResponse(i, headers)
  \/ \E i \in Instances, response \in Bodies : InstReturn(i, response)
  \/ \E i \in Instances : InstRaises(i)
  \/ \E i \in Instances, content \in RedirectContents : InstStage(i, content)

SpecTwo == Init /\ [][NextTwo]_vars

\* ========================================================================
\* Properties
\* ========================================================================

\* The positions of the Set-Cookie headers in a header list.
DirectiveIdx(headers) == {i \in 1..Len(headers) : headers[i].name = "Set-Cookie"}

\* The cookie name of a directive "name=value; attr=val": the text before the
\* first "=", without surrounding blanks.
DirectiveName(v) == Strip(SubSeq(v, 1, FindFrom(v, "=", 1) - 1))

\* Its directive string: everything after the first "=".
DirectiveString(v) == SubSeq(v, FindFrom(v, "=", 1) + 1, Len(v))

NamedBy(headers) == {DirectiveName(headers[i].value) : i \in DirectiveIdx(headers)}

Merged == op = "encode_response" /\ err = "None"

\* C1: after encode_response has merged the Set-Cookie directives of a
\* response, every name of the jar that no directive names is still there with
\* the value it had, and every name a directive names is there with the
\* directive string of a directive of that name.
C1_PartialUpdatePreserved ==
  Merged =>
    /\ \A n \in (DOMAIN pre_cookies) \ NamedBy(arg_headers) :
         n \in DOMAIN request_cookies /\ request_cookies[n] = pre_cookies[n]
    /\ \A n \in NamedBy(arg_headers) :
         /\ n \in DOMAIN request_cookies
         /\ \E i \in DirectiveIdx(arg_headers) :
              /\ DirectiveName(arg_headers[i].value) = n
              /\ request_cookies[n] = StrVal(DirectiveString(arg_headers[i].value))

\* The jar {a: 1, b: 2} and a response that sets only a = 9 give {a: 9, b: 2}.
C1_Witness ==
  /\ Merged
  /\ DOMAIN pre_cookies = {<<"a">>, <<"b">>}
  /\ pre_cookies[<<"a">>] = StrVal(<<"1">>)
  /\ NamedBy(arg_headers) = {<<"a">>}
  /\ DOMAIN request_cookies = {<<"a">>, <<"b">>}
  /\ request_cookies[<<"a">>] = StrVal(<<"9">>)
  /\ request_cookies[<<"b">>] = StrVal(<<"2">>)

\* C2: whenever the application calls the response-starter, the header list
\* the underlying start_response receives holds exactly one Set-Cookie header,
\* and it is the cookie 'zappa' whose payload decodes to the jar after the merge.
C2_OneAggregateSetCookie ==
  (op = "encode_response" /\ sr_call # <<>>) =>
    LET hs == sr_call[1].headers
    IN  /\ Cardinality(DirectiveIdx(hs)) = 1
        /\ \A i \in DirectiveIdx(hs) :
             /\ DirectiveName(hs[i].value) = ZappaName
             /\ DecodeZappaCookie(DirectiveString(hs[i].value), <<>>, EmptyJar)
                  = [err |-> "None",
                     decoded_zappa |-> <<b58decode(DirectiveString(hs[i].value)).bytes>>,
                     request_cookies |-> request_cookies,
                     rebound |-> TRUE]

\* The attributes of a jar value "value; attr=val; ...": the parts after the
\* first ";".
Attributes(value) ==
  IF value.kind = "str" THEN Tail(SplitAll(value.s, ";")) ELSE <<>>

IsExpiresAttr(part) == Lower(Strip(Split1(Strip(part), "=")[1])) = ExpiresWord

\* The date texts of the expires directives of a jar value.
ExpiresTexts(value) ==
  {Split1(Strip(Attributes(value)[i]), "=")[2] :
     i \in {k \in 1..Len(Attributes(value)) :
              /\ IsExpiresAttr(Attributes(value)[k])
              /\ Len(Split1(Strip(Attributes(value)[k]), "=")) = 2}}

\* The date a text spells in the four-digit-year or the two-digit-year format.
ParsedDate(text) == IF strptime(text, 4).ok THEN strptime(text, 4) ELSE strptime(text, 2)

\* The instant a is strictly earlier than the instant b: year, month, day,
\* hour, minute and second compared.
Earlier(a, b) == TupleLess(SubSeq(a, 1, 6), SubSeq(b, 1, 6))

\* The value carries an expires directive whose date is strictly earlier than t.
HasExpired(value, t) ==
  \E x \in ExpiresTexts(value) : ParsedDate(x).ok /\ Earlier(ParsedDate(x).time, t)

\* The value carries an expires directive without a value or with a date that
\* neither format parses.
HasBadExpires(value) ==
  \/ \E i \in 1..Len(Attributes(value)) :
       /\ IsExpiresAttr(Attributes(value)[i])
       /\ Len(Split1(Strip(Attributes(value)[i]), "=")) < 2
  \/ \E x \in ExpiresTexts(value) : ~ParsedDate(x).ok

\* What a payload packs: the outcome of decoding it on a fresh instance.
Packed(payload) == DecodeZappaCookie(payload, <<>>, EmptyJar)

\* C3: on a request whose Cookie header carries a well-formed 'zappa' cookie,
\* the jar and the cookies given to the application hold every unexpired
\* name/value pair packed in it.
C3_AggregateUnpacked ==
  (op = "call" /\ ZappaName \in DOMAIN parse_cookie(in_header)) =>
    LET packed == Packed(parse_cookie(in_header)[ZappaName].s)
    IN  packed.err = "None" =>
          \A n \in DOMAIN packed.request_cookies :
            ~HasExpired(packed.request_cookies[n], now) =>
              /\ n \in DOMAIN request_cookies
              /\ request_cookies[n] = packed.request_cookies[n]
              /\ n \in DOMAIN environ_cookie
              /\ environ_cookie[n] = packed.request_cookies[n]

\* C4: the cookies __call__ hands to the wrapped application hold no entry
\* named 'zappa', whatever the Cookie header of the request.
C4_AggregateNotExposed ==
  op = "call" => ZappaName \notin DOMAIN environ_cookie

\* The client sent 'zappa' next to the cookie b, and the application is handed b.
C4_Witness ==
  /\ op = "call"
  /\ ZappaName \in DOMAIN parse_cookie(in_header)
  /\ DOMAIN environ_cookie = {<<"b">>}

\* C5: after encode_response, the jar entry of a name that several Set-Cookie
\* headers of the response set is the directive string of the last of them.
C5_LastWriteWins ==
  Merged =>
    \A i \in DirectiveIdx(arg_headers) :
      (\A j \in DirectiveIdx(arg_headers) :
         j > i => DirectiveName(arg_headers[j].value) # DirectiveName(arg_headers[i].value))
      => /\ DirectiveName(arg_headers[i].value) \in DOMAIN request_cookies
         /\ request_cookies[DirectiveName(arg_headers[i].value)]
              = StrVal(DirectiveString(arg_headers[i].value))

\* Two headers set the same name to different strings, and the later one is kept.
C5_Witness ==
  /\ Merged
  /\ \E i, j \in DirectiveIdx(arg_headers) :
       /\ i < j
       /\ DirectiveName(arg_headers[i].value) = DirectiveName(arg_headers[j].value)
       /\ DirectiveString(arg_headers[i].value) # DirectiveString(arg_headers[j].value)
       /\ \A k \in DirectiveIdx(arg_headers) : k <= j
       /\ request_cookies[DirectiveName(arg_headers[j].value)]
            = StrVal(DirectiveString(arg_headers[j].value))

\* C6: when __call__ invokes the wrapped application, neither the jar nor the
\* cookies given to the application hold an entry whose expires directive is
\* strictly earlier than the current time.
C6_NoExpiredAtHandOff ==
  op = "call" =>
    /\ \A n \in DOMAIN request_cookies : ~HasExpired(request_cookies[n], now)
    /\ \A n \in DOMAIN environ_cookie : ~HasExpired(environ_cookie[n], now)

\* C7: filter_expired_cookies removes an entry exactly when the entry carries
\* an expires directive whose date is strictly earlier than now.
C7_PrunesExactlyTheExpired ==
  op = "filter_expired_cookies" =>
    \A n \in DOMAIN pre_cookies :
      (n \notin DOMAIN request_cookies) <=> HasExpired(pre_cookies[n], now)

\* C8: the body override never leaks: redirect_content is None whenever no
\* request is in progress, and an override that replaces a body was staged
\* during the request whose body it replaces.
C8_OverrideNeverLeaks ==
  /\ pc = "idle" => redirect_content = "None"
  /\ (op = "return" /\ Truthy(pre_redirect)) => staged_now

PayloadMalformed(payload) == Packed(payload).err # "None"

\* C9: decode_zappa_cookie on a malformed payload raises nothing and leaves
\* the jar empty.
C9_MalformedPayloadEmptiesJar ==
  (op = "decode_zappa_cookie" /\ PayloadMalformed(arg_payload)) =>
    err = "None" /\ request_cookies = EmptyJar

\* C10: on a jar with an entry whose expires directive has no value or a date
\* neither format parses, filter_expired_cookies raises nothing, keeps that
\* entry and removes the entries that have expired.
C10_BadDateNeverFails ==
  (op = "filter_expired_cookies"
     /\ \E n \in DOMAIN pre_cookies : HasBadExpires(pre_cookies[n])) =>
    /\ err = "None"
    /\ \A n \in DOMAIN pre_cookies :
         HasBadExpires(pre_cookies[n]) =>
           n \in DOMAIN request_cookies /\ request_cookies[n] = pre_cookies[n]
    /\ \A n \in DOMAIN pre_cookies :
         HasExpired(pre_cookies[n], now) => n \notin DOMAIN request_cookies

\* A Set-Cookie header of the list has no "=" in its value.
HasDirectiveWithoutEq(headers) ==
  \E i \in DirectiveIdx(headers) : Count(headers[i].value, "=") = 0

\* C11: when a Set-Cookie header of the response has no "=", encode_response
\* raises to its caller, the underlying start_response is not called, nothing
\* is returned, and the jar is as it was before the call: no directive of the
\* response has been merged, not even a well-formed one before the bad one.
C11_MalformedDirectiveFailsWhole ==
  (op = "encode_response" /\ HasDirectiveWithoutEq(arg_headers)) =>
    /\ err # "None"
    /\ sr_call = <<>>
    /\ ret = <<>>
    /\ request_cookies = pre_cookies

\* The response sets a = 9 and then has a directive without "="; the jar held
\* another value for a, and still does.
C11_Witness ==
  /\ op = "encode_response"
  /\ err = "IndexError"
  /\ \E i, j \in DirectiveIdx(arg_headers) :
       /\ i < j
       /\ Count(arg_headers[i].value, "=") = 1
       /\ DirectiveName(arg_headers[i].value) = <<"a">>
       /\ Count(arg_headers[j].value, "=") = 0
  /\ <<"a">> \in DOMAIN pre_cookies
  /\ pre_cookies[<<"a">>] = StrVal(<<"1">>)
  /\ request_cookies = pre_cookies
  /\ sr_call = <<>>

\* The positions of the headers of a list that are not Set-Cookie headers.
PassThroughIdx(headers) == {i \in 1..Len(headers) : headers[i].name # "Set-Cookie"}

\* q is the list p without some of its elements: an order-keeping one-to-one
\* map sends the positions of q to positions of p that hold the same element.
RECURSIVE IsSubsequence(_, _)
IsSubsequence(q, p) ==
  IF q = <<>> THEN TRUE
  ELSE IF p = <<>> THEN FALSE
  ELSE IF Head(q) = Head(p) THEN IsSubsequence(Tail(q), Tail(p))
  ELSE IsSubsequence(q, Tail(p))

C13_JarFromRequestOnly ==
  op = "call" =>
    /\ \A n \in DOMAIN request_cookies :
         /\ n \in DOMAIN parse_cookie(in_header)
         /\ request_cookies[n] = parse_cookie(in_header)[n]
    /\ \A n \in DOMAIN pre_cookies :
         n \notin DOMAIN parse_cookie(in_header) => n \notin DOMAIN request_cookies

\* The jar of the request before held a = 9, set by its response, next to b;
\* the next request carries b and 'zappa' but not a, and its jar holds b only.
C13_Witness ==
  /\ op = "call"
  /\ <<"a">> \in DOMAIN pre_cookies
  /\ pre_cookies[<<"a">>] = StrVal(<<"9">>)
  /\ <<"b">> \in DOMAIN pre_cookies
  /\ <<"a">> \notin DOMAIN parse_cookie(in_header)
  /\ DOMAIN request_cookies = {<<"b">>}

\* C14: a step of the request one instance serves leaves what the other
\* instance sees as its jar, its start_response and its body override as they
\* were; an instance serving a request sees the start_response given to that
\* request; and its encode_response calls that start_response and leaves the
\* names its own Set-Cookie headers set in its own jar.
C14_InstancesDoNotInterfere ==
  /\ \A i \in Instances : \A j \in Instances \ {i} :
       last.who = i => Visible(Heap)[j] = last.pre[j]
  /\ \A i \in Instances :
       inst[i].pc # "idle" => GetAttr(Heap, i, "start_response") = inst[i].given
  /\ \A i \in Instances :
       (last.who = i /\ last.op = "encode_response" /\ last.err = "None") =>
         /\ last.called = <<inst[i].given>>
         /\ NamedBy(last.headers) \subseteq DOMAIN GetAttr(Heap, i, "request_cookies")

\* Instance 1 serves a request with the cookies a and b and start_response_1
\* while instance 2 serves one without cookies and with start_response_2; the
\* application of instance 2 sets a = 9, which enters the jar of instance 2
\* and calls start_response_2, and the jar of instance 1 still holds a = 1.
C14_Witness ==
  /\ last.who = 2
  /\ last.op = "encode_response"
  /\ last.called = <<"start_response_2">>
  /\ inst[1].pc = "app"
  /\ inst[1].given = "start_response_1"
  /\ DOMAIN GetAttr(Heap, 1, "request_cookies") = {<<"a">>, <<"b">>}
  /\ GetAttr(Heap, 1, "request_cookies")[<<"a">>] = StrVal(<<"1">>)
  /\ DOMAIN GetAttr(Heap, 2, "request_cookies") = {<<"a">>}
  /\ GetAttr(Heap, 2, "request_cookies")[<<"a">>] = StrVal(<<"9">>)

\* C15: filter_expired_cookies applied to a jar that a completed
\* filter_expired_cookies has left, at the same time, raises nothing and leaves
\* the jar as it is: no entry is removed or changed.
C15_PruningIdempotent ==
  (op = "filter_expired_cookies" /\ pre_pruned) =>
    /\ err = "None"
    /\ request_cookies = pre_cookies

\* The jar was decoded with more names than it holds now: the first pruning
\* removed an entry, and the second one has removed nothing.
C15_Witness ==
  /\ op = "filter_expired_cookies"
  /\ pre_pruned
  /\ decoded_zappa # <<>>
  /\ json_loads(decoded_zappa[1]).err = "None"
  /\ \E n \in DOMAIN json_loads(decoded_zappa[1]).jar : n \notin DOMAIN pre_cookies
  /\ pre_cookies # EmptyJar
  /\ request_cookies = pre_cookies

\* The entries of the jar are strings of printable characters without quotes
\* and backslashes, which the JSON text and its base58 form carry as they are.
CodecSafe(jar) ==
  \A n \in DOMAIN jar :
    /\ jar[n].kind = "str"
    /\ \A k \in 1..Len(n) : n[k] \notin {"\"", "\\"}
    /\ \A k \in 1..Len(jar[n].s) : jar[n].s[k] \notin {"\"", "\\"}

\* C16: the payload encode_response produces from a jar of codec-safe entries
\* and sends in a Set-Cookie header decodes, by decode_zappa_cookie, to the
\* same name/value pairs.
C16_PayloadRoundTrips ==
  (Merged /\ CodecSafe(request_cookies)) =>
    \E i \in DirectiveIdx(sr_call[1].headers) :
      /\ Packed(DirectiveString(sr_call[1].headers[i].value)).err = "None"
      /\ Packed(DirectiveString(sr_call[1].headers[i].value)).request_cookies
           = request_cookies

\* The positions of a text at which "expires=" starts.
ExpiresAt(s) ==
  {p \in 1..Len(s) :
     /\ p + Len(ExpiresEq) - 1 <= Len(s)
     /\ SubSeq(s, p, p + Len(ExpiresEq) - 1) = ExpiresEq}

\* Where the date of the one expires directive of the text starts.
DateStart(s) == SetMin(ExpiresAt(s)) + Len(ExpiresEq)

\* The value has one expires directive and its date is written as
\* "Www, dd-Mmm-yy hh:mm:ss GMT", with a year of two digits.
HasTwoDigitYear(value) ==
  /\ value.kind = "str"
  /\ Cardinality(ExpiresAt(value.s)) = 1
  /\ Len(value.s) = DateStart(value.s) + 26
  /\ value.s[DateStart(value.s) + 11] = "-"
  /\ IsDigit(value.s[DateStart(value.s) + 12])
  /\ IsDigit(value.s[DateStart(value.s) + 13])
  /\ value.s[DateStart(value.s) + 14] = " "

\* The same value with the year written in four digits: 69 to 99 are the
\* years 1969 to 1999, 00 to 68 the years 2000 to 2068.
WithFourDigitYear(value) ==
  LET y == DateStart(value.s) + 12
  IN  StrVal(SubSeq(value.s, 1, y - 1)
             \o (IF value.s[y] \in {"7", "8", "9"}
                     \/ (value.s[y] = "6" /\ value.s[y + 1] = "9")
                  THEN <<"1", "9">> ELSE <<"2", "0">>)
             \o SubSeq(value.s, y, Len(value.s)))

\* C17: for an entry whose expires date has a two-digit year, what
\* filter_expired_cookies has done (the exception, the names left, their
\* values) is what it does, for some iteration order, with the jar in which
\* that date is written with the four-digit year instead: the two-digit date
\* is parsed, and the entry is removed or kept as the four-digit one is.
C17_TwoDigitYearAccepted ==
  op = "filter_expired_cookies" =>
    \A n \in DOMAIN pre_cookies :
      HasTwoDigitYear(pre_cookies[n]) =>
        \E order \in Orders(DOMAIN pre_cookies) :
          LET twin == FilterExpired(JarSet(pre_cookies, n, WithFourDigitYear(pre_cookies[n])),
                                    order, now)
          IN  /\ twin.err = err
              /\ DOMAIN twin.jar = DOMAIN request_cookies
              /\ \A m \in DOMAIN request_cookies \ {n} : twin.jar[m] = request_cookies[m]

\* The jar held y, expiring "01-Jan-20", next to a, expiring "01-Jan-2020" at
\* the same time of day; the pruning raised nothing and removed both.
C17_Witness ==
  /\ op = "filter_expired_cookies"
  /\ err = "None"
  /\ DOMAIN pre_cookies = {<<"a">>, <<"y">>}
  /\ HasTwoDigitYear(pre_cookies[<<"y">>])
  /\ ~HasTwoDigitYear(pre_cookies[<<"a">>])
  /\ WithFourDigitYear(pre_cookies[<<"y">>]) = pre_cookies[<<"a">>]
  /\ request_cookies = EmptyJar

\* C18: when an override is staged as the application returns, the body
\* __call__ returns is the override, once, whatever the number of chunks of
\* the application's body, and holds none of those chunks.
C18_OverrideSubstitutedOnce ==
  (op = "return" /\ Truthy(pre_redirect)) => body = << <<pre_redirect>> >>

\* C19: after encode_response, the cookie mapping __call__ placed in
\* environ['HTTP_COOKIE'] has the entries it had when the application was
\* invoked, those of the Cookie header without 'zappa': none is added, removed
\* or changed by the Set-Cookie headers of the response.
C19_MergeLeavesEnvironUnchanged ==
  op = "encode_response" =>
    /\ DOMAIN environ_cookie = (DOMAIN parse_cookie(in_header)) \ {ZappaName}
    /\ \A n \in DOMAIN environ_cookie : environ_cookie[n] = parse_cookie(in_header)[n]

====
